---- MODULE Spec2Model ----
(***************************************************************************)
(* Starting a remote development environment and waiting for it to run:    *)
(*   startEnvironmentWithProgress  (src/shared/clients/cawsClient.ts)      *)
(*   startMde                      (src/shared/toolkitError.ts, 2nd unit)  *)
(*                                                                         *)
(* Both build the same composite: a Timeout object, a progress             *)
(* notification with a cancel button, a poll loop (waitUntil) around a     *)
(* probe, and waitTimeout, which settles the call from the poll loop or    *)
(* from the Timeout.  The probe and the two callers are translated from    *)
(* the source; Timeout, waitUntil and waitTimeout live in                  *)
(* shared/utilities/timeoutUtils, which is not part of the sources at      *)
(* hand, and follow the bounded poll-until-ready contract of spec.md       *)
(* (sections 4.1, 5, 7, 8) and the call sites.                             *)
(*                                                                         *)
(* Time is a wall clock in abstract ticks.  A request to the service is    *)
(* in flight for any number of ticks; the service owns the environment's   *)
(* status, so every response may carry any status.                         *)
(*                                                                         *)
(* The second part is the client object itself (CawsClientInternal):       *)
(* its credentials, the cached user name and the promise `call` makes      *)
(* around each request.  ClientSpec runs the client's methods on a client  *)
(* on which no start call is made.                                         *)
(***************************************************************************)
EXTENDS Integers, Naturals, Sequences, FiniteSets, TLC

\* ---------------------------------------------------------------- bounds
MaxInterval   == 2   \* poll intervals range over 1..MaxInterval ticks
MaxTimeout    == 4   \* timeout lengths range over 1..MaxTimeout ticks
MaxInitDelay  == 1   \* ticks that may pass before polling starts
MaxProbeDelay == 1   \* ticks a request may stay in flight past the last poll deadline

ProbeHorizon == MaxInitDelay + MaxTimeout + MaxProbeDelay
MaxTime      == ProbeHorizon + MaxInterval

\* status of an environment as reported by the service; "NONE" is a
\* response without a status (resp?.status === undefined)
Status == {"STOPPED", "STOPPING", "STARTING", "RUNNING", "NONE"}

VARIABLES
    op,             \* "caws": startEnvironmentWithProgress, "mde": startMde
    reqStatus,      \* caws: the `status` argument
    interval,       \* waitUntil's interval
    timeoutLen,     \* MDE_START_TIMEOUT / TIMEOUT_LENGTH
    now,            \* wall clock
    tEnd,           \* Timeout: the instant it expires
    tState,         \* Timeout: "active", "expired", "cancelled"
    mainPc,         \* the caller: "getInit", "showMsg", "polling", "done"
    lastStatus,     \* caws: `lastStatus`
    wuPc,           \* waitUntil: "idle", "probe", "sleep", "done"
    wuDeadline,     \* waitUntil: the instant its own timeout ends
    wakeAt,         \* waitUntil: end of the current sleep
    calls,          \* number of probe invocations so far
    pollRes,        \* pollMde: "pending", "env", "undef", "error"
    probePc,        \* the probe: "none", "getting", "starting"
    respStatus,     \* the probe: status of `resp`
    inFlight,       \* number of unsettled probe invocations
    getReqs,        \* get-environment requests sent
    startReqs,      \* start-environment requests sent
    abortReqs,      \* stop- or delete-environment requests sent
    result,         \* the call: "pending", "env", "undefined", "thrown"
    resultStatus,   \* status of the environment returned
    onExpireCalls,  \* invocations of onExpire (shows the timeout message)
    onCancelCalls,  \* invocations of onCancel
    errorShown,     \* 'Timeout waiting for MDE environment' messages shown
    sawRunningAt,   \* history: invocation that first observed RUNNING, or 0
    threwAt,        \* history: invocation in which the probe threw, or 0
    refreshed       \* history: the Timeout was refreshed while polling

\* the client object (CawsClientInternal) and its requests
VARIABLES
    authCookie,     \* `authCookie`: "undef", "" or a cookie
    userId,         \* `userId`: "undef", "" or an account id
    username,       \* `username`: "undef" or the cached user name
    pc,             \* per method: "idle", the request awaited, "done"
    ret,            \* per method: "none", "thrown" or the value returned
    args,            \* per method: `silent` and `defaultVal` of its last `call`
    resp,           \* per method: `e` and `data` handed to the send callback
    promise,        \* per method: the promise made by its last `call`
    listing,        \* the list method that owns the "list" slot
    apiCalls,       \* requests sent by `call`
    invocations,    \* method invocations so far
    credsChanged,   \* history: credentials changed since username was last written
    lastInvoked,    \* history: the method invoked last
    idSource,       \* history: the method that last wrote userId
    credsWithoutId  \* history: the last setCredentials passed no usable userId

clientVars == <<authCookie, userId, username, pc, ret, args, resp, promise, listing,
                apiCalls, invocations, credsChanged, lastInvoked, idSource,
                credsWithoutId>>

params   == <<op, reqStatus, interval, timeoutLen>>
tmVars   == <<tEnd, tState>>
mainVars == <<mainPc, result, resultStatus, onExpireCalls, onCancelCalls, errorShown, abortReqs>>
loopVars == <<wuPc, wuDeadline, wakeAt, calls, pollRes>>
probeVars == <<probePc, respStatus, inFlight, getReqs, startReqs, lastStatus>>
histVars == <<sawRunningAt, threwAt, refreshed>>
pollVars == <<params, now, tmVars, mainVars, loopVars, probeVars, histVars>>
vars == <<pollVars, clientVars>>

\* ------------------------------------------------------------- Timeout
\* timeout.completed
Completed(ts) == ts # "active"

\* timeout.remainingTime
RemainingTime == IF tEnd > now THEN tEnd - now ELSE 0

\* the Timeout's timer is due: it fires before the clock moves on
TimerDue == tState = "active" /\ now >= tEnd /\ mainPc # "done"

\* ------------------------------------------------- the probe (from code)
FailedToStartOnlyStopped(last, s) ==
    op = "caws" /\ last = "STARTING" /\ s = "STOPPED"

\* if (lastStatus === 'STARTING' && (resp?.status === 'STOPPED' || resp?.status === 'STOPPING'))
FailedToStart(last, s) ==
    op = "caws" /\ last = "STARTING" /\ s \in {"STOPPED", "STOPPING"}

NeedsStartOrStopping(s) == s \in {"STOPPED", "STOPPING"}

NeedsStartBudget(s) == s = "STOPPED" /\ startReqs < 1

\* if (resp?.status === 'STOPPED') ... await startDevEnv / startEnvironment
NeedsStart(s) == s = "STOPPED"

ProbeResultNever(s) == "undef"

ProbeResultNotStopped(s) == IF s # "STOPPED" THEN "env" ELSE "undef"

\* return resp?.status === 'RUNNING' ? resp : undefined
ProbeResult(s) == IF s = "RUNNING" THEN "env" ELSE "undef"

ProbeFailureSwallowed == "undef"

\* the probe has no try/catch: a rejected request or the thrown
\* 'Evironment failed to start' rejects the probe
ProbeFailure == "error"

DebounceNever(req, s) == FALSE

\* if (status === 'RUNNING' && lastStatus === 'RUNNING') return env
Debounce(req, s) == req = "RUNNING" /\ s = "RUNNING"

PollTimeoutUnbounded == MaxTime + MaxTime

PollTimeoutFull == timeoutLen

\* { interval, timeout: timeout.remainingTime } / { interval: 1500, timeout: TIMEOUT_LENGTH }
PollTimeout == IF op = "caws" THEN RemainingTime ELSE timeoutLen

OnCancelStops(a) == a + 1

\* onCancel: () => undefined -- sends nothing
OnCancel(a) == a

\* onExpire: () => (showErrorMessage(...), undefined) -- sends nothing
OnExpire(a) == a

\* onExpire shows the 'Timeout waiting for MDE environment' message
OnExpireMessage(n) == n + 1

OnCancelMessageShown(n) == n + 1

\* onCancel shows no message
OnCancelMessage(n) == n

\* --------------------------------------------------------- waitTimeout
\* Settles the call from the Timeout or from pollMde.  `waiting`: the
\* caller is in waitTimeout after this step; ts: the Timeout's state; pr:
\* pollMde; busy: a probe invocation is unsettled; s: status of the
\* environment pollMde resolved with.
WaitTimeout(waiting, ts, pr, busy, s) ==
    IF ~waiting
    THEN UNCHANGED mainVars
    ELSE IF ts = "expired" /\ ~busy
    THEN /\ mainPc' = "done"
         /\ result' = "undefined"
         /\ onExpireCalls' = onExpireCalls + 1
         /\ abortReqs' = OnExpire(abortReqs)
         /\ errorShown' = OnExpireMessage(errorShown)
         /\ UNCHANGED <<resultStatus, onCancelCalls>>
    ELSE IF ts = "cancelled" /\ ~busy
    THEN /\ mainPc' = "done"
         /\ result' = "undefined"
         /\ onCancelCalls' = onCancelCalls + 1
         /\ abortReqs' = OnCancel(abortReqs)
         /\ errorShown' = OnCancelMessage(errorShown)
         /\ UNCHANGED <<resultStatus, onExpireCalls>>
    ELSE IF ts = "active" /\ pr # "pending"
    THEN /\ mainPc' = "done"
         /\ result' = CASE pr = "env" -> "env"
                        [] pr = "undef" -> "undefined"
                        [] OTHER -> "thrown"
         /\ resultStatus' = IF pr = "env" THEN s ELSE resultStatus
         /\ UNCHANGED <<onExpireCalls, onCancelCalls, errorShown, abortReqs>>
    ELSE /\ mainPc' = "polling"
         /\ UNCHANGED <<result, resultStatus, onExpireCalls, onCancelCalls, errorShown, abortReqs>>

\* ------------------------------------------------------------ waitUntil
NotAwaited == wuPc \in {"sleep", "probe"}

\* the loop awaits the probe before it sleeps and polls again
Awaited == wuPc = "sleep"

InvokeUnguarded ==
    /\ calls' = calls + 1
    /\ pollRes' = pollRes
    /\ wuPc' = "probe"
    /\ probePc' = "getting"
    /\ inFlight' = inFlight + 1
    /\ getReqs' = getReqs + 1
    /\ UNCHANGED wakeAt

\* fn() is invoked; it returns at once when the Timeout has completed,
\* else it sends the get-environment request
Invoke ==
    /\ calls' = calls + 1
    /\ pollRes' = pollRes
    /\ IF Completed(tState)
       THEN /\ wuPc' = "sleep"
            /\ wakeAt' = now + interval
            /\ UNCHANGED <<probePc, inFlight, getReqs>>
       ELSE /\ wuPc' = "probe"
            /\ probePc' = "getting"
            /\ inFlight' = inFlight + 1
            /\ getReqs' = getReqs + 1
            /\ UNCHANGED wakeAt

\* one turn of the loop: give up when the deadline has elapsed, else poll
LoopStep(deadline) ==
    IF now >= deadline
    THEN /\ wuPc' = "done"
         /\ pollRes' = "undef"
         /\ UNCHANGED <<calls, probePc, inFlight, getReqs, wakeAt>>
    ELSE Invoke

\* the probe settles with r: "env", "undef" or "error"
Settle(r, s) ==
    /\ probePc' = "none"
    /\ inFlight' = inFlight - 1
    /\ IF r = "undef"
       THEN /\ wuPc' = "sleep"
            /\ wakeAt' = now + interval
            /\ pollRes' = pollRes
       ELSE /\ wuPc' = "done"
            /\ pollRes' = r
            /\ wakeAt' = wakeAt
    /\ WaitTimeout(mainPc = "polling", tState, pollRes', FALSE, s)

\* --------------------------------------------------------------- client
MaxInvocations == 3   \* method invocations on one client

Methods     == {"verifySession", "getPerson", "getUsername", "list"}
ListMethods == {"listOrgs", "listProjects", "listDevEnvs", "listRepos"}
Cookies     == {"", "c1", "c2"}
AccountIds  == {"", "u1"}
UserNames   == {"", "n1"}
Errors      == {"e1", "e2"}
NoDefault   == "undef"
EmptyPage   == "emptyPage"

\* truthiness of a `string | undefined`
Truthy(v) == v \notin {"undef", ""}
\* the test of `??` and `??=`
Nullish(v) == v = "undef"

ConnectedCookieOnly(c, u) == Truthy(c)

\* get connected(): !!(this.authCookie && this.userId)
Connected(c, u) == Truthy(c) /\ Truthy(u)

UsernameCachedNever(n) == FALSE

\* getUsername: `this.username ??= ...` skips its right-hand side
UsernameCached(n) == ~Nullish(n)

Unmade  == [state |-> "unmade", val |-> "none", settles |-> 0]
Pending == [state |-> "pending", val |-> "none", settles |-> 0]
NoResp  == [got |-> FALSE, e |-> "none", data |-> "none"]

\* resolve(v) and reject(e) of a promise: only the first one settles it
Resolve(p, v) ==
    IF p.state = "pending"
    THEN [state |-> "resolved", val |-> v, settles |-> p.settles + 1]
    ELSE [p EXCEPT !.settles = @ + 1]

Reject(p, e) ==
    IF p.state = "pending"
    THEN [state |-> "rejected", val |-> e, settles |-> p.settles + 1]
    ELSE [p EXCEPT !.settles = @ + 1]

CallbackRejectsSilent(p, silent, d, e, data) ==
    IF e # "none" THEN Reject(p, e) ELSE Resolve(p, data)

\* the callback `call` hands to req.send
Callback(p, silent, d, e, data) ==
    IF e # "none"
    THEN IF silent
         THEN IF d = NoDefault
              THEN p                  \* throw Error(): the promise stays as it is
              ELSE Resolve(p, d)
         ELSE Reject(p, e)
    ELSE Resolve(p, data)

\* call(req, silent, defaultVal): a new promise, the request is sent
Call(m, silent, d) ==
    /\ args' = [args EXCEPT ![m] = [silent |-> silent, defaultVal |-> d]]
    /\ resp' = [resp EXCEPT ![m] = NoResp]
    /\ promise' = [promise EXCEPT ![m] = Pending]
    /\ apiCalls' = apiCalls + 1

\* what the service may answer to the request a method awaits
DataOf(k) ==
    IF k = "verify" THEN AccountIds
    ELSE IF k = "person" THEN UserNames
    ELSE {"page"}

\* the client as createClient returns it
ClientFresh(cookie) ==
    /\ authCookie = cookie
    /\ userId = "undef"
    /\ username = "undef"
    /\ pc = [m \in Methods |-> "idle"]
    /\ ret = [m \in Methods |-> "none"]
    /\ args = [m \in Methods |-> [silent |-> FALSE, defaultVal |-> NoDefault]]
    /\ resp = [m \in Methods |-> NoResp]
    /\ promise = [m \in Methods |-> Unmade]
    /\ listing = "none"
    /\ apiCalls = 0
    /\ invocations = 0
    /\ credsChanged = FALSE
    /\ lastInvoked = "none"
    /\ idSource = "none"
    /\ credsWithoutId = FALSE

\* ----------------------------------------------------------------- Init
PollInit ==
    /\ op \in {"caws", "mde"}
    /\ reqStatus \in {"RUNNING", "STARTING"}
    /\ (op = "mde" => reqStatus = "RUNNING")
    /\ interval \in 1..MaxInterval
    /\ timeoutLen \in 1..MaxTimeout
    /\ now = 0
    /\ tEnd = timeoutLen
    /\ tState = "active"
    /\ mainPc = IF op = "caws" THEN "getInit" ELSE "showMsg"
    /\ lastStatus = "NONE"
    /\ wuPc = "idle"
    /\ wuDeadline = 0
    /\ wakeAt = 0
    /\ calls = 0
    /\ pollRes = "pending"
    /\ probePc = "none"
    /\ respStatus = "NONE"
    /\ inFlight = 0
    /\ getReqs = IF op = "caws" THEN 1 ELSE 0
    /\ startReqs = 0
    /\ abortReqs = 0
    /\ result = "pending"
    /\ resultStatus = "NONE"
    /\ onExpireCalls = 0
    /\ onCancelCalls = 0
    /\ errorShown = 0
    /\ sawRunningAt = 0
    /\ threwAt = 0
    /\ refreshed = FALSE

\* a call on a client made with a cookie
Init == PollInit /\ ClientFresh("c1")

\* a client on which no start call is made
ClientInit ==
    /\ PollInit
    /\ op = "caws" /\ reqStatus = "RUNNING" /\ interval = 1 /\ timeoutLen = 1
    /\ \E c \in Cookies \cup {"undef"} : ClientFresh(c)

\* -------------------------------------------------------------- actions
\* the wall clock advances
Tick ==
    /\ now < MaxTime
    /\ ~TimerDue
    /\ mainPc \in {"getInit", "showMsg"} => now < MaxInitDelay
    /\ probePc # "none" => now < ProbeHorizon
    /\ ~(mainPc = "done" /\ wuPc \in {"idle", "done"})
    /\ now' = now + 1
    /\ UNCHANGED <<clientVars, params, tmVars, mainVars, loopVars, probeVars, histVars>>

\* caws: the initial getDevEnv settles (try/catch of lines 481-490)
InitGetDone ==
    /\ mainPc = "getInit"
    /\ \E ok \in BOOLEAN, s \in Status :
        /\ lastStatus' = IF ok THEN s ELSE "NONE"
        /\ IF ok /\ Debounce(reqStatus, s)
           THEN /\ mainPc' = "done"
                /\ result' = "env"
                /\ resultStatus' = s
           ELSE /\ mainPc' = "showMsg"
                /\ UNCHANGED <<result, resultStatus>>
    /\ UNCHANGED <<clientVars, params, now, tmVars, onExpireCalls, onCancelCalls, errorShown, abortReqs,
                   loopVars, probePc, respStatus, inFlight, getReqs, startReqs, histVars>>

\* the progress notification is shown, waitUntil starts polling and the
\* caller enters waitTimeout
StartPolling ==
    /\ mainPc = "showMsg"
    /\ ~TimerDue
    /\ wuDeadline' = now + PollTimeout
    /\ LoopStep(wuDeadline')
    /\ WaitTimeout(TRUE, tState, pollRes', probePc' # "none", "NONE")
    /\ UNCHANGED <<clientVars, params, now, tmVars, respStatus, startReqs, lastStatus, histVars>>

\* the sleep between two polls ends
Wake ==
    /\ Awaited
    /\ now >= wakeAt
    /\ ~TimerDue
    /\ LoopStep(wuDeadline)
    /\ WaitTimeout(mainPc = "polling", tState, pollRes', probePc' # "none", "NONE")
    /\ UNCHANGED <<clientVars, params, now, tmVars, wuDeadline, respStatus, startReqs, lastStatus, histVars>>

\* the probe's get-environment request settles
ProbeGetDone ==
    /\ probePc = "getting"
    /\ \E ok \in BOOLEAN, s \in Status :
        /\ sawRunningAt' = IF ok /\ s = "RUNNING" /\ sawRunningAt = 0
                           THEN calls ELSE sawRunningAt
        /\ IF ~ok \/ FailedToStart(lastStatus, s)
           THEN /\ threwAt' = calls
                /\ respStatus' = IF ok THEN s ELSE "NONE"
                /\ Settle(ProbeFailure, "NONE")
                /\ UNCHANGED <<startReqs, lastStatus>>
           ELSE IF NeedsStart(s)
           THEN /\ probePc' = "starting"
                /\ respStatus' = s
                /\ startReqs' = startReqs + 1
                /\ UNCHANGED <<threwAt, inFlight, lastStatus, mainVars, wuPc, wakeAt, pollRes>>
           ELSE /\ respStatus' = s
                /\ lastStatus' = IF op = "caws" THEN s ELSE lastStatus
                /\ Settle(ProbeResult(s), s)
                /\ UNCHANGED <<threwAt, startReqs>>
    /\ UNCHANGED <<clientVars, params, now, tmVars, wuDeadline, calls, getReqs, refreshed>>

\* the probe's start-environment request settles
ProbeStartDone ==
    /\ probePc = "starting"
    /\ \E ok \in BOOLEAN :
        IF ~ok
        THEN /\ threwAt' = calls
             /\ Settle(ProbeFailure, "NONE")
             /\ UNCHANGED lastStatus
        ELSE /\ lastStatus' = IF op = "caws" THEN respStatus ELSE lastStatus
             /\ Settle(ProbeResult(respStatus), respStatus)
             /\ UNCHANGED threwAt
    /\ UNCHANGED <<clientVars, params, now, tmVars, wuDeadline, calls, respStatus, getReqs,
                   startReqs, sawRunningAt, refreshed>>

\* the Timeout's timer fires
Expire ==
    /\ TimerDue
    /\ tState' = "expired"
    /\ WaitTimeout(mainPc = "polling", "expired", pollRes, probePc # "none", "NONE")
    /\ UNCHANGED <<clientVars, params, now, tEnd, loopVars, probeVars, histVars>>

\* the user presses the cancel button of the progress notification
Cancel ==
    /\ mainPc = "polling"
    /\ tState = "active"
    /\ tState' = "cancelled"
    /\ WaitTimeout(TRUE, "cancelled", pollRes, probePc # "none", "NONE")
    /\ UNCHANGED <<clientVars, params, now, tEnd, loopVars, probeVars, histVars>>

\* caws: the caller, who owns the Timeout, refreshes it
Refresh ==
    /\ op = "caws"
    /\ mainPc # "done"
    /\ tState = "active"
    /\ ~TimerDue
    /\ now + timeoutLen # tEnd
    /\ tEnd' = now + timeoutLen
    /\ refreshed' = (refreshed \/ mainPc = "polling")
    /\ UNCHANGED <<clientVars, params, now, tState, mainVars, loopVars, probeVars, sawRunningAt, threwAt>>

Next ==
    \/ Tick
    \/ InitGetDone
    \/ StartPolling
    \/ Wake
    \/ ProbeGetDone
    \/ ProbeStartDone
    \/ Expire
    \/ Cancel
    \/ Refresh

Spec == Init /\ [][Next]_vars

\* every request settles, timers fire and the clock advances
FairSpec ==
    /\ Spec
    /\ WF_vars(Tick)
    /\ WF_vars(InitGetDone)
    /\ WF_vars(StartPolling)
    /\ WF_vars(Wake)
    /\ WF_vars(ProbeGetDone)
    /\ WF_vars(ProbeStartDone)
    /\ WF_vars(Expire)

\* ------------------------------------------------------- client actions
\* setCredentials(authCookie, userId?)
SetCredentials ==
    /\ invocations < MaxInvocations
    /\ \E c \in Cookies, u \in AccountIds \cup {"undef"} :
        /\ authCookie' = c
        /\ userId' = u
        /\ credsWithoutId' = ~Truthy(u)
        /\ credsChanged' = (credsChanged \/ (username # "undef" /\ (c # authCookie \/ u # userId)))
    /\ idSource' = "setCredentials"
    /\ lastInvoked' = "setCredentials"
    /\ invocations' = invocations + 1
    /\ UNCHANGED <<pollVars, username, pc, ret, args, resp, promise, listing, apiCalls>>

\* verifySession() up to its first await
VerifySession ==
    /\ invocations < MaxInvocations
    /\ pc["verifySession"] \in {"idle", "done"}
    /\ pc' = [pc EXCEPT !["verifySession"] = "verify"]
    /\ ret' = [ret EXCEPT !["verifySession"] = "none"]
    /\ Call("verifySession", FALSE, NoDefault)
    /\ lastInvoked' = "verifySession"
    /\ invocations' = invocations + 1
    /\ UNCHANGED <<pollVars, authCookie, userId, username, listing, credsChanged,
                   idSource, credsWithoutId>>

\* getPerson(args) up to its await
GetPerson ==
    /\ invocations < MaxInvocations
    /\ pc["getPerson"] \in {"idle", "done"}
    /\ pc' = [pc EXCEPT !["getPerson"] = "person"]
    /\ ret' = [ret EXCEPT !["getPerson"] = "none"]
    /\ Call("getPerson", FALSE, NoDefault)
    /\ lastInvoked' = "getPerson"
    /\ invocations' = invocations + 1
    /\ UNCHANGED <<pollVars, authCookie, userId, username, listing, credsChanged,
                   idSource, credsWithoutId>>

\* getUsername() up to its await, or to its return
GetUsername ==
    /\ invocations < MaxInvocations
    /\ pc["getUsername"] \in {"idle", "done"}
    /\ IF UsernameCached(username)
       THEN /\ pc' = [pc EXCEPT !["getUsername"] = "done"]
            /\ ret' = [ret EXCEPT !["getUsername"] = username]
            /\ UNCHANGED <<args, resp, promise, apiCalls>>
       ELSE /\ pc' = [pc EXCEPT !["getUsername"] = "person"]
            /\ ret' = [ret EXCEPT !["getUsername"] = "none"]
            /\ Call("getUsername", FALSE, NoDefault)
    /\ lastInvoked' = "getUsername"
    /\ invocations' = invocations + 1
    /\ UNCHANGED <<pollVars, authCookie, userId, username, listing, credsChanged,
                   idSource, credsWithoutId>>

\* the requester of listOrgs, listProjects, listDevEnvs or listRepos
ListPage ==
    /\ invocations < MaxInvocations
    /\ pc["list"] \in {"idle", "done"}
    /\ \E m \in ListMethods : listing' = m
    /\ pc' = [pc EXCEPT !["list"] = "list"]
    /\ ret' = [ret EXCEPT !["list"] = "none"]
    /\ Call("list", TRUE, EmptyPage)
    /\ lastInvoked' = "list"
    /\ invocations' = invocations + 1
    /\ UNCHANGED <<pollVars, authCookie, userId, username, credsChanged, idSource,
                   credsWithoutId>>

\* the service answers a request: req.send runs the callback
Respond ==
    \E m \in Methods :
        /\ pc[m] \in {"verify", "person", "list"}
        /\ ~resp[m].got
        /\ \E e \in Errors \cup {"none"}, data \in DataOf(pc[m]) :
            /\ resp' = [resp EXCEPT ![m] = [got |-> TRUE, e |-> e,
                                            data |-> IF e = "none" THEN data ELSE "none"]]
            /\ promise' = [promise EXCEPT ![m] =
                              Callback(@, args[m].silent, args[m].defaultVal, e, data)]
        /\ UNCHANGED <<pollVars, authCookie, userId, username, pc, ret, args, listing,
                       apiCalls, invocations, credsChanged, lastInvoked, idSource,
                credsWithoutId>>

\* verifySession() after `await this.call(verifySession)`
VerifySessionIdentity ==
    /\ pc["verifySession"] = "verify"
    /\ promise["verifySession"].state \in {"resolved", "rejected"}
    /\ IF promise["verifySession"].state = "rejected"
          \/ ~Truthy(promise["verifySession"].val)
       THEN /\ pc' = [pc EXCEPT !["verifySession"] = "done"]
            /\ ret' = [ret EXCEPT !["verifySession"] = "thrown"]
            /\ UNCHANGED <<userId, idSource, args, resp, promise, apiCalls>>
       ELSE /\ userId' = promise["verifySession"].val
            /\ idSource' = "verifySession"
            /\ pc' = [pc EXCEPT !["verifySession"] = "person"]
            /\ UNCHANGED ret
            /\ Call("verifySession", FALSE, NoDefault)
    /\ UNCHANGED <<pollVars, authCookie, username, listing, invocations, credsChanged,
                   lastInvoked, credsWithoutId>>

\* getPerson(args) after its await, and its caller's return
GetPersonDone ==
    \E m \in {"verifySession", "getPerson", "getUsername"} :
        /\ pc[m] = "person"
        /\ promise[m].state \in {"resolved", "rejected"}
        /\ pc' = [pc EXCEPT ![m] = "done"]
        /\ IF promise[m].state = "rejected" \/ ~Truthy(promise[m].val)
           THEN /\ ret' = [ret EXCEPT ![m] = "thrown"]
                /\ UNCHANGED <<username, credsChanged>>
           ELSE /\ username' = promise[m].val
                /\ credsChanged' = FALSE
                /\ ret' = [ret EXCEPT ![m] = promise[m].val]
        /\ UNCHANGED <<pollVars, authCookie, userId, args, resp, promise, listing,
                       apiCalls, invocations, lastInvoked, idSource, credsWithoutId>>

\* the requester of a list method after `call` settled
ListPageDone ==
    /\ pc["list"] = "list"
    /\ promise["list"].state \in {"resolved", "rejected"}
    /\ pc' = [pc EXCEPT !["list"] = "done"]
    /\ ret' = [ret EXCEPT !["list"] = IF promise["list"].state = "rejected"
                                       THEN "thrown" ELSE promise["list"].val]
    /\ UNCHANGED <<pollVars, authCookie, userId, username, args, resp, promise, listing,
                   apiCalls, invocations, credsChanged, lastInvoked, idSource,
                credsWithoutId>>

ClientNext ==
    \/ SetCredentials
    \/ VerifySession
    \/ GetPerson
    \/ GetUsername
    \/ ListPage
    \/ Respond
    \/ VerifySessionIdentity
    \/ GetPersonDone
    \/ ListPageDone

ClientSpec == ClientInit /\ [][ClientNext]_vars

ClientTypeOK ==
    /\ authCookie \in Cookies \cup {"undef"}
    /\ userId \in AccountIds \cup {"undef"}
    /\ username \in UserNames \cup {"undef"}
    /\ \A m \in Methods : pc[m] \in {"idle", "verify", "person", "list", "done"}
    /\ invocations \in 0..MaxInvocations
    /\ apiCalls \in 0..(2 * MaxInvocations)

TypeOK ==
    /\ op \in {"caws", "mde"}
    /\ interval \in 1..MaxInterval
    /\ timeoutLen \in 1..MaxTimeout
    /\ now \in 0..MaxTime
    /\ tState \in {"active", "expired", "cancelled"}
    /\ mainPc \in {"getInit", "showMsg", "polling", "done"}
    /\ wuPc \in {"idle", "probe", "sleep", "done"}
    /\ pollRes \in {"pending", "env", "undef", "error"}
    /\ probePc \in {"none", "getting", "starting"}
    /\ lastStatus \in Status
    /\ result \in {"pending", "env", "undefined", "thrown"}
    /\ wakeAt <= MaxTime
    /\ (wuPc = "probe") = (probePc # "none")
    /\ (mainPc = "polling" /\ tState # "active" => probePc # "none")

\* ---------------------------------------------------------------- claims
Ceil(a, b) == (a + b - 1) \div b

Succeeded   == result = "env" /\ onExpireCalls = 0 /\ onCancelCalls = 0
TimedOut    == result = "undefined" /\ onExpireCalls = 1 /\ onCancelCalls = 0
Cancelled   == result = "undefined" /\ onExpireCalls = 0 /\ onCancelCalls = 1
ProbeFailed == result = "thrown" /\ onExpireCalls = 0 /\ onCancelCalls = 0
GaveUp      == result = "undefined" /\ onExpireCalls = 0 /\ onCancelCalls = 0

\* C1 as stated: when the probe's Nth invocation observes the definitive
\* result, N * interval < timeout and nothing was cancelled, the call
\* returns that result after exactly N invocations.
C1_ReadyOnNthCall ==
    (mainPc = "done" /\ tState # "cancelled" /\ sawRunningAt > 0
        /\ sawRunningAt * interval < timeoutLen)
    => (result = "env" /\ calls = sawRunningAt)

\* C1, amended: the poll loop stops with the definitive result after
\* exactly the N invocations it took to observe it, and the call returns
\* that result whenever the Timeout has neither expired nor been cancelled
\* by the time the Nth invocation settles.
C1_ReadyBeforeDeadline ==
    /\ sawRunningAt > 0 => (calls = sawRunningAt /\ wuPc = "done" /\ pollRes = "env")
    /\ (sawRunningAt > 0 /\ tState = "active")
        => (mainPc = "done" /\ result = "env" /\ resultStatus = "RUNNING")

C1_Witness ==
    /\ sawRunningAt = 3
    /\ sawRunningAt * interval < timeoutLen
    /\ calls = 3
    /\ result = "env"

C3_NoPollAfterCancel ==
    [][ /\ (tState = "cancelled" => calls' = calls)
        /\ ((mainPc' = "done" /\ tState' = "cancelled")
              => (onCancelCalls' = 1 /\ result' = "undefined")) ]_vars

\* C4 as stated: a polling run whose probe never observes the definitive
\* result, without cancellation or probe error, ends by reporting timeout
\* after the configured duration, with at most ceil(duration / interval)
\* probe invocations.
C4_TimeoutReported ==
    /\ calls <= Ceil(timeoutLen, interval)
    /\ (mainPc = "done" /\ wuPc # "idle" /\ sawRunningAt = 0 /\ threwAt = 0
            /\ tState # "cancelled")
        => (TimedOut /\ tState = "expired")

\* C5 as stated: every finished call shows exactly one of the four
\* outcomes succeeded, timeout, cancelled, probe failed; timeout is
\* reported through onExpire only and cancellation through onCancel only.
C5_FourOutcomes ==
    mainPc = "done" =>
        /\ Succeeded \/ TimedOut \/ Cancelled \/ ProbeFailed
        /\ TimedOut => tState = "expired"
        /\ Cancelled => tState = "cancelled"
        /\ (wuPc # "idle" /\ tState # "active") => (TimedOut \/ Cancelled)

C7_Sequential == inFlight <= 1

C7_Witness == inFlight = 1 /\ calls = 3 /\ probePc = "starting"

\* C8 as stated: once the Timeout has expired or been cancelled no further
\* probe invocation is made, and the call returns only when no probe
\* invocation is unsettled.
C8_Cooperative ==
    [][ /\ ((tState # "active" /\ wuPc # "idle") => calls' = calls)
        /\ ((mainPc # "done" /\ mainPc' = "done" /\ tState' # "active")
              => probePc' = "none") ]_vars

\* C9: every call ends, and so does its poll loop, whatever statuses the
\* service reports, given that requests settle and the clock advances.
C9_Terminates == <>(mainPc = "done" /\ wuPc \in {"idle", "done"})

C9_Witness == mainPc = "done" /\ wuPc = "done" /\ calls >= 3 /\ tState = "cancelled"

\* C10: no step of the call sends a stop or delete request or takes back a
\* start request; pressing cancel sends nothing, and a cancelled call
\* returns undefined.
C10_CancelDoesNotAbort ==
    [][ /\ abortReqs' = abortReqs
        /\ startReqs' >= startReqs
        /\ ((tState = "active" /\ tState' = "cancelled")
              => (startReqs' = startReqs /\ getReqs' = getReqs))
        /\ ((mainPc' = "done" /\ tState' = "cancelled") => result' = "undefined") ]_vars

C10_Witness ==
    mainPc = "done" /\ tState = "cancelled" /\ startReqs >= 1 /\ result = "undefined"

\* a step in which the probe's get-environment request settles
GetSettles == probePc = "getting" /\ probePc' # "getting"

\* C11: when startEnvironmentWithProgress is asked for RUNNING and its
\* initial getDevEnv reports RUNNING, it returns that environment in the
\* same step, having shown no progress notification, started no poll loop
\* and sent no start request, and nothing is sent afterwards.
C11_Debounce ==
    [][ /\ (mainPc = "getInit" /\ mainPc' # "getInit" /\ reqStatus = "RUNNING"
              /\ lastStatus' = "RUNNING")
          => (mainPc' = "done" /\ result' = "env" /\ resultStatus' = "RUNNING"
              /\ wuPc' = "idle" /\ calls' = 0 /\ startReqs' = 0)
        /\ (mainPc = "done" /\ wuPc = "idle")
          => UNCHANGED <<mainPc, wuPc, calls, getReqs, startReqs, result>> ]_vars

C11_Witness ==
    /\ op = "caws" /\ reqStatus = "RUNNING" /\ lastStatus = "RUNNING"
    /\ mainPc = "done" /\ wuPc = "idle" /\ result = "env"
    /\ calls = 0 /\ startReqs = 0 /\ getReqs = 1

\* C12: in startEnvironmentWithProgress a poll sends a start request
\* exactly when it observes STOPPED while the previously observed status
\* is not STARTING; no other step sends one.
C12_StartIffStopped ==
    [][ /\ (op = "caws" /\ GetSettles)
          => ((startReqs' = startReqs + 1)
                <=> (respStatus' = "STOPPED" /\ lastStatus # "STARTING"))
        /\ (op = "caws" /\ ~GetSettles) => startReqs' = startReqs
        /\ startReqs' \in {startReqs, startReqs + 1} ]_vars

C12_Witness ==
    op = "caws" /\ startReqs = 2 /\ lastStatus = "STOPPED" /\ probePc = "starting"

\* C13: in startEnvironmentWithProgress a poll that observes STOPPED or
\* STOPPING while the previously observed status is STARTING throws: the
\* poll loop ends with the error, the call throws unless the Timeout has
\* completed, and no start request is sent in that poll or later.
C13_FailedToStart ==
    [][ /\ (op = "caws" /\ GetSettles /\ lastStatus = "STARTING"
              /\ respStatus' \in {"STOPPED", "STOPPING"})
          => /\ threwAt' = calls
             /\ pollRes' = "error"
             /\ wuPc' = "done"
             /\ probePc' = "none"
             /\ startReqs' = startReqs
             /\ (tState = "active" => (mainPc' = "done" /\ result' = "thrown"))
        /\ (pollRes = "error") => (startReqs' = startReqs /\ calls' = calls) ]_vars

C13_Witness ==
    /\ op = "caws" /\ lastStatus = "STARTING" /\ respStatus = "STOPPING"
    /\ threwAt = 2 /\ pollRes = "error" /\ result = "thrown" /\ startReqs = 0

\* C14: a probe invocation made after the Timeout has expired or been
\* cancelled returns 'not ready' at once: it sends neither a get nor a
\* start request and the poll loop goes back to sleep.
C14_CompletedProbeIsIdle ==
    [][ (tState # "active" /\ calls' = calls + 1)
          => (getReqs' = getReqs /\ startReqs' = startReqs /\ probePc' = probePc
              /\ inFlight' = inFlight /\ pollRes' = pollRes /\ wuPc' = "sleep") ]_vars

C14_Witness ==
    op = "mde" /\ tState = "cancelled" /\ mainPc = "done" /\ calls = 3 /\ getReqs = 1

C17_NoRetryBudget ==
    [][ /\ (op = "mde" /\ GetSettles)
          => ((startReqs' = startReqs + 1) <=> respStatus' = "STOPPED")
        /\ (op = "mde" /\ ~GetSettles) => startReqs' = startReqs
        /\ (op = "mde" /\ GetSettles /\ respStatus = "STARTING"
              /\ respStatus' \in {"STOPPED", "STOPPING"})
          => (threwAt' = threwAt /\ pollRes' = pollRes) ]_vars

C17_Witness ==
    op = "mde" /\ startReqs = 3 /\ threwAt = 0 /\ calls = 3

\* ------------------------------------------------------ claims on the client
\* verifySession stores the identity it obtained
IdentityStored ==
    /\ pc["verifySession"] = "verify"
    /\ pc'["verifySession"] = "person"
    /\ userId' = promise["verifySession"].val

Invoked(m) == invocations' # invocations /\ lastInvoked' = m

\* C18: after any sequence of createClient, setCredentials and
\* verifySession, `connected` is true exactly when authCookie and userId
\* are both non-empty; a fresh client and a client whose last
\* setCredentials passed no userId are connected only once verifySession
\* has stored an identity, and nothing but these two methods changes
\* the credentials.
C18_ConnectedIffCredentials ==
    /\ [](/\ Connected(authCookie, userId)
             <=> (authCookie \notin {"undef", ""} /\ userId \notin {"undef", ""})
          /\ (Connected(authCookie, userId) /\ (credsWithoutId \/ idSource = "none"))
             => idSource = "verifySession")
    /\ [][ /\ (~Connected(authCookie, userId) /\ Connected(authCookie', userId'))
              => (IdentityStored \/ Invoked("setCredentials"))
           /\ (authCookie' # authCookie \/ userId' # userId)
              => (IdentityStored \/ Invoked("setCredentials")) ]_vars

C18_Witness ==
    /\ Connected(authCookie, userId)
    /\ credsWithoutId
    /\ idSource = "verifySession"
    /\ authCookie = "c2"

\* C19: once a username is cached it stays cached, a getUsername invoked
\* then returns it at once without sending a request, and setCredentials
\* leaves it as it is, so that getUsername after a credential change
\* returns the name cached before the change.
C19_CachedUsername ==
    [][ /\ username # "undef" => username' # "undef"
        /\ (Invoked("getUsername") /\ username # "undef")
           => /\ pc'["getUsername"] = "done"
              /\ ret'["getUsername"] = username
              /\ username' = username
              /\ apiCalls' = apiCalls
        /\ Invoked("setCredentials") => username' = username ]_vars

C19_Witness ==
    /\ lastInvoked = "getUsername"
    /\ pc["getUsername"] = "done"
    /\ ret["getUsername"] = "n1"
    /\ credsChanged
    /\ apiCalls = 1

\* C20: the callback of `call` runs resolve or reject exactly once: it
\* resolves with the response data on success, resolves with the default
\* value on an error of a silent call, and rejects with the error itself
\* on an error of a call that is not silent; the list methods therefore
\* never throw and get the empty page on an error.
C20_SettlesOnce ==
    /\ \A m \in Methods :
        /\ promise[m].settles <= 1
        /\ resp[m].got
           => /\ promise[m].settles = 1
              /\ resp[m].e = "none"
                 => promise[m].state = "resolved" /\ promise[m].val = resp[m].data
              /\ (resp[m].e # "none" /\ args[m].silent)
                 => promise[m].state = "resolved" /\ promise[m].val = args[m].defaultVal
              /\ (resp[m].e # "none" /\ ~args[m].silent)
                 => promise[m].state = "rejected" /\ promise[m].val = resp[m].e
    /\ ret["list"] # "thrown"
    /\ (pc["list"] = "done" /\ resp["list"].e # "none") => ret["list"] = EmptyPage

C20_Witness ==
    /\ pc["list"] = "done"
    /\ listing = "listRepos"
    /\ resp["list"].e = "e2"
    /\ ret["list"] = EmptyPage
    /\ promise["getPerson"].state = "rejected"
    /\ promise["getPerson"].val = "e1"
    /\ ret["getPerson"] = "thrown"
====
